---- MODULE Spec2Model ----
(***************************************************************************)
(* Model of the Toast API specification server (server.py): the catalog    *)
(* TOAST_SPECS, the process-wide specs_cache, fetch_yaml_spec and the      *)
(* tool handler handle_call_tool with its five tools.                      *)
(*                                                                         *)
(* Python strings that the code takes apart (keys, scalars, locators,      *)
(* search terms) are sequences of one-character strings; specification     *)
(* identifiers, URLs and tool names are only compared and stay atoms.      *)
(* A parsed document is a record tagged by `kind`:                         *)
(*   dict (ordered entries <<key, value>>), list, str, int, bool, null.    *)
(***************************************************************************)
EXTENDS Integers, Sequences, FiniteSets, TLC

VARIABLES specs_cache, ready, running, last, q

vars == <<specs_cache, ready, running, last, q>>

-----------------------------------------------------------------------------
(* Bounds of the model.                                                    *)

\* invocations that may be in flight (received, not yet answered) at once
MaxInFlight == 2

\* hits of the longest sample document beyond the hits shown to the caller
ExtraHits == 2

-----------------------------------------------------------------------------
(* Python values.                                                          *)

PyNone == [kind |-> "null"]

PyStrV(s) == [kind |-> "str", s |-> s]

PyInt(n) == [kind |-> "int", n |-> n]

PyBool(b) == [kind |-> "bool", b |-> b]

PyList(items) == [kind |-> "list", items |-> items]

PyDict(entries) == [kind |-> "dict", entries |-> entries]

IsDict(v) == v.kind = "dict"

IsList(v) == v.kind = "list"

HasKey(d, k) == \E i \in 1..Len(d.entries) : d.entries[i][1] = k

DictGet(d, k) == d.entries[CHOOSE i \in 1..Len(d.entries) : d.entries[i][1] = k][2]

-----------------------------------------------------------------------------
(* Python string operations.                                               *)

UpperAlpha == <<"A","B","C","D","E","F","G","H","I","J","K","L","M",
                "N","O","P","Q","R","S","T","U","V","W","X","Y","Z">>

LowerAlpha == <<"a","b","c","d","e","f","g","h","i","j","k","l","m",
                "n","o","p","q","r","s","t","u","v","w","x","y","z">>

LowerChar(c) ==
    IF \E i \in 1..26 : UpperAlpha[i] = c
    THEN LowerAlpha[CHOOSE i \in 1..26 : UpperAlpha[i] = c]
    ELSE c

UpperChar(c) ==
    IF \E i \in 1..26 : LowerAlpha[i] = c
    THEN UpperAlpha[CHOOSE i \in 1..26 : LowerAlpha[i] = c]
    ELSE c

\* str.lower()
Lower(s) == [i \in 1..Len(s) |-> LowerChar(s[i])]

\* str.upper()
Upper(s) == [i \in 1..Len(s) |-> UpperChar(s[i])]

\* `sub in s` for two strings
Contains(sub, s) ==
    \E i \in 0..(Len(s) - Len(sub)) : SubSeq(s, i + 1, i + Len(sub)) = sub

Digits == <<"0","1","2","3","4","5","6","7","8","9">>

RECURSIVE NatStr(_)
NatStr(n) == IF n < 10 THEN <<Digits[n + 1]>>
             ELSE NatStr(n \div 10) \o <<Digits[(n % 10) + 1]>>

\* str(int)
IntStr(n) == IF n < 0 THEN <<"-">> \o NatStr(0 - n) ELSE NatStr(n)

RECURSIVE Escaped(_)
\* the characters of a string as repr writes them: a backslash is doubled
Escaped(s) ==
    IF s = <<>> THEN <<>>
    ELSE (IF Head(s) = "\\" THEN <<"\\", "\\">> ELSE <<Head(s)>>) \o Escaped(Tail(s))

RECURSIVE PyRepr(_)
RECURSIVE ReprEntries(_, _)
RECURSIVE ReprItems(_, _)

\* ", ".join of "repr(k): repr(v)" over the entries from index i on
ReprEntries(es, i) ==
    IF i > Len(es) THEN <<>>
    ELSE (IF i > 1 THEN <<",", " ">> ELSE <<>>)
         \o <<"'">> \o Escaped(es[i][1]) \o <<"'", ":", " ">> \o PyRepr(es[i][2])
         \o ReprEntries(es, i + 1)

\* ", ".join of repr(item) over the items from index i on
ReprItems(xs, i) ==
    IF i > Len(xs) THEN <<>>
    ELSE (IF i > 1 THEN <<",", " ">> ELSE <<>>)
         \o PyRepr(xs[i]) \o ReprItems(xs, i + 1)

\* repr(v); strings of the model hold no quote and no control character
PyRepr(v) ==
    CASE v.kind = "str"  -> <<"'">> \o Escaped(v.s) \o <<"'">>
      [] v.kind = "int"  -> IntStr(v.n)
      [] v.kind = "bool" -> IF v.b THEN <<"T","r","u","e">> ELSE <<"F","a","l","s","e">>
      [] v.kind = "null" -> <<"N","o","n","e">>
      [] v.kind = "list" -> <<"[">> \o ReprItems(v.items, 1) \o <<"]">>
      [] v.kind = "dict" -> <<"{">> \o ReprEntries(v.entries, 1) \o <<"}">>

\* str(v): a string is itself, every other value is its repr
PyStr(v) == IF v.kind = "str" THEN v.s ELSE PyRepr(v)

\* type(v).__name__ of a composite
TypeName(v) == IF IsDict(v) THEN <<"d","i","c","t">> ELSE <<"l","i","s","t">>

-----------------------------------------------------------------------------
(* The catalog.                                                            *)

TOAST_SPECS == <<
    [name |-> "reporting", url |-> "https://doc.toasttab.com/toast-api-specifications/toast-reporting-api.yaml"],
    [name |-> "authentication", url |-> "https://doc.toasttab.com/toast-api-specifications/toast-authentication-api.yaml"],
    [name |-> "cashmgmt", url |-> "https://doc.toasttab.com/toast-api-specifications/toast-cashmgmt-api.yaml"],
    [name |-> "config", url |-> "https://doc.toasttab.com/toast-api-specifications/toast-config-api.yaml"],
    [name |-> "ccpartner", url |-> "https://doc.toasttab.com/toast-api-specifications/toast-ccpartner-api.yaml"],
    [name |-> "kitchen", url |-> "https://doc.toasttab.com/openapi/kitchen/overview/"],
    [name |-> "labor", url |-> "https://doc.toasttab.com/openapi/labor/overview/"],
    [name |-> "menus", url |-> "https://doc.toasttab.com/openapi/menus/overview/"],
    [name |-> "menus-v3", url |-> "https://doc.toasttab.com/toast-api-specifications/toast-menus-api-v3.yaml"],
    [name |-> "ordermgmt-config", url |-> "https://doc.toasttab.com/toast-api-specifications/toast-ordermgmt-config-api-docs.yaml"],
    [name |-> "orders", url |-> "https://doc.toasttab.com/toast-api-specifications/toast-orders-api.yaml"],
    [name |-> "packaging", url |-> "https://doc.toasttab.com/openapi/packaging/overview/"],
    [name |-> "partners", url |-> "https://doc.toasttab.com/openapi/partners/overview/"],
    [name |-> "rx-availability", url |-> "https://doc.toasttab.com/openapi/rx.availability.service/overview/"],
    [name |-> "restaurants", url |-> "https://doc.toasttab.com/toast-api-specifications/toast-restaurants-api.yaml"],
    [name |-> "stock", url |-> "https://doc.toasttab.com/toast-api-specifications/toast-stock-api.yaml"],
    [name |-> "giftcard-integration", url |-> "https://doc.toasttab.com/toast-api-specifications/toast-integrations-giftcard-api.yaml"],
    [name |-> "loyalty-integration", url |-> "https://doc.toasttab.com/toast-api-specifications/toast-integrations-loyalty-api.yaml"],
    [name |-> "tender-integration", url |-> "https://doc.toasttab.com/toast-api-specifications/toast-tender-api.yaml"] >>

\* TOAST_SPECS.keys(), in catalog order
CatalogKeys == [i \in 1..Len(TOAST_SPECS) |-> TOAST_SPECS[i].name]

\* spec_name in TOAST_SPECS
InCatalog(spec_name) == \E i \in 1..Len(TOAST_SPECS) : TOAST_SPECS[i].name = spec_name

\* TOAST_SPECS[spec_name]
UrlOf(spec_name) ==
    TOAST_SPECS[CHOOSE i \in 1..Len(TOAST_SPECS) : TOAST_SPECS[i].name = spec_name].url

-----------------------------------------------------------------------------
(* Outcomes of a call: a returned value or a raised exception.             *)

Return(v) == [ok |-> TRUE, value |-> v]

Raise(e) == [ok |-> FALSE, value |-> e]

\* an unknown-spec error whose message names no catalog key
UnknownSpecError_nolist(spec_name) ==
    [kind |-> "ValueError", what |-> "Unknown spec",
     spec_name |-> spec_name, available |-> <<>>]

\* ValueError("Unknown spec: ... Available specs: ...")
UnknownSpecError(spec_name) ==
    [kind |-> "ValueError", what |-> "Unknown spec",
     spec_name |-> spec_name, available |-> CatalogKeys]

\* Exception("Failed to fetch spec from {url}: ...")
FetchError(url, reason) ==
    [kind |-> "Exception", what |-> "Failed to fetch spec", url |-> url, reason |-> reason]

\* Exception("Failed to parse YAML from {url}: ...")
ParseError(url) ==
    [kind |-> "Exception", what |-> "Failed to parse YAML", url |-> url]

\* ValueError("Endpoint {endpoint_path} not found in {spec_name} specification")
EndpointNotFoundError(endpoint_path, spec_name) ==
    [kind |-> "ValueError", what |-> "Endpoint not found",
     endpoint_path |-> endpoint_path, spec_name |-> spec_name]

\* ValueError("Unknown tool: {name}")
UnknownToolError(name) == [kind |-> "ValueError", what |-> "Unknown tool", name |-> name]

\* the exceptions the interpreter raises for an operation a value does not support
TypeError == [kind |-> "TypeError", what |-> "unsupported operand"]

AttributeError == [kind |-> "AttributeError", what |-> "no such attribute"]

\* types.TextContent(type="text", text=json.dumps(value, indent=2) + note):
\* the JSON value the text denotes, and the omitted-count of the trailing
\* note (<<>> when the text has no note)
TextContent(value, more) == [type |-> "text", json |-> value, more |-> more]

-----------------------------------------------------------------------------
(* Operators of the interpreter on a parsed document.                      *)

\* whether `k in c` is defined for a string k (c is a container or a string)
SupportsIn(c) == c.kind \in {"dict", "list", "str"}

\* `k in c` for a string k: key of a dict, item of a list, substring of a string
PyIn(k, c) ==
    CASE c.kind = "dict" -> HasKey(c, k)
      [] c.kind = "list" -> \E i \in 1..Len(c.items) : c.items[i] = PyStrV(k)
      [] c.kind = "str"  -> Contains(k, c.s)

S_paths == <<"p","a","t","h","s">>

S_summary == <<"s","u","m","m","a","r","y">>

S_description == <<"d","e","s","c","r","i","p","t","i","o","n">>

\* details.get(key, "")
GetOrEmpty(details, key) ==
    IF HasKey(details, key) THEN DictGet(details, key) ELSE PyStrV(<<>>)

-----------------------------------------------------------------------------
(* get_toast_endpoints                                                     *)

RECURSIVE EndpointsOfMethods_nocase(_, _, _)
\* an inner loop that appends the method as written in the document
EndpointsOfMethods_nocase(path, methods, j) ==
    IF j > Len(methods.entries) THEN <<>>
    ELSE LET method  == methods.entries[j][1]
             details == methods.entries[j][2]
         IN (IF IsDict(details)
             THEN << [path |-> path, method |-> method,
                      summary |-> GetOrEmpty(details, S_summary),
                      description |-> GetOrEmpty(details, S_description)] >>
             ELSE <<>>)
            \o EndpointsOfMethods_nocase(path, methods, j + 1)

RECURSIVE EndpointsOfMethods(_, _, _)
\* the inner loop over methods.items(), from entry j on
EndpointsOfMethods(path, methods, j) ==
    IF j > Len(methods.entries) THEN <<>>
    ELSE LET method  == methods.entries[j][1]
             details == methods.entries[j][2]
         IN (IF IsDict(details)
             THEN << [path |-> path, method |-> Upper(method),
                      summary |-> GetOrEmpty(details, S_summary),
                      description |-> GetOrEmpty(details, S_description)] >>
             ELSE <<>>)
            \o EndpointsOfMethods(path, methods, j + 1)

RECURSIVE EndpointsOfPaths(_, _)
\* the outer loop over spec_data["paths"].items(), from entry i on;
\* every path item is a dict here
EndpointsOfPaths(paths, i) ==
    IF i > Len(paths.entries) THEN <<>>
    ELSE EndpointsOfMethods(paths.entries[i][1], paths.entries[i][2], 1)
         \o EndpointsOfPaths(paths, i + 1)

\* a branch that reads spec_data["paths"] without asking whether it is there
GetToastEndpoints_strict(spec_data) ==
    IF ~IsDict(spec_data) THEN Raise(TypeError)
    ELSE IF ~HasKey(spec_data, S_paths)
         THEN Raise([kind |-> "KeyError", what |-> "paths"])
    ELSE LET paths == DictGet(spec_data, S_paths)
         IN IF ~IsDict(paths) THEN Raise(AttributeError)
            ELSE IF \E i \in 1..Len(paths.entries) : ~IsDict(paths.entries[i][2])
                 THEN Raise(AttributeError)
                 ELSE Return(TextContent(EndpointsOfPaths(paths, 1), <<>>))

\* the get_toast_endpoints branch after the fetch
GetToastEndpoints(spec_data) ==
    IF ~SupportsIn(spec_data) THEN Raise(TypeError)
    ELSE IF ~PyIn(S_paths, spec_data) THEN Return(TextContent(<<>>, <<>>))
    ELSE IF ~IsDict(spec_data) THEN Raise(TypeError)
    ELSE LET paths == DictGet(spec_data, S_paths)
         IN IF ~IsDict(paths) THEN Raise(AttributeError)
            ELSE IF \E i \in 1..Len(paths.entries) : ~IsDict(paths.entries[i][2])
                 THEN Raise(AttributeError)
                 ELSE Return(TextContent(EndpointsOfPaths(paths, 1), <<>>))

-----------------------------------------------------------------------------
(* get_toast_endpoint_details                                              *)

\* a branch that looks the path up with .get and answers null when it is missing
GetToastEndpointDetails_lenient(spec_data, endpoint_path, spec_name) ==
    IF ~SupportsIn(spec_data) THEN Raise(TypeError)
    ELSE IF ~PyIn(S_paths, spec_data)
         THEN Raise(EndpointNotFoundError(endpoint_path, spec_name))
    ELSE IF ~IsDict(spec_data) THEN Raise(TypeError)
    ELSE LET paths == DictGet(spec_data, S_paths)
         IN IF ~IsDict(paths) THEN Raise(AttributeError)
            ELSE IF ~HasKey(paths, endpoint_path) THEN Return(TextContent(PyNone, <<>>))
            ELSE Return(TextContent(DictGet(paths, endpoint_path), <<>>))

\* the get_toast_endpoint_details branch after the fetch
GetToastEndpointDetails(spec_data, endpoint_path, spec_name) ==
    IF ~SupportsIn(spec_data) THEN Raise(TypeError)
    ELSE IF ~PyIn(S_paths, spec_data)
         THEN Raise(EndpointNotFoundError(endpoint_path, spec_name))
    ELSE IF ~IsDict(spec_data) THEN Raise(TypeError)
    ELSE LET paths == DictGet(spec_data, S_paths)
         IN IF ~SupportsIn(paths) THEN Raise(TypeError)
            ELSE IF ~PyIn(endpoint_path, paths)
                 THEN Raise(EndpointNotFoundError(endpoint_path, spec_name))
            ELSE IF ~IsDict(paths) THEN Raise(TypeError)
            ELSE Return(TextContent(DictGet(paths, endpoint_path), <<>>))

-----------------------------------------------------------------------------
(* search_toast_spec                                                       *)

\* the hits shown to the caller
SearchLimit == 50

\* value if it is a scalar, else the placeholder f"<{type(value).__name__}>"
HitValue(value) ==
    IF IsDict(value) \/ IsList(value)
    THEN PyStrV(<<"<">> \o TypeName(value) \o <<">">>)
    ELSE value

\* search_term in str(value).lower()
ValueMatches(search_term, value) == Contains(search_term, Lower(PyStr(value)))

RECURSIVE search_recursive(_, _, _)
RECURSIVE SearchEntries(_, _, _, _)
RECURSIVE SearchItems(_, _, _, _)
RECURSIVE SearchEntries_post(_, _, _, _)
RECURSIVE SearchEntries_prune(_, _, _, _)

\* a loop that appends the hits inside a value before the hit of its entry
SearchEntries_post(search_term, obj, path, i) ==
    IF i > Len(obj.entries) THEN <<>>
    ELSE LET key   == obj.entries[i][1]
             value == obj.entries[i][2]
             current_path == IF path # <<>> THEN path \o <<".">> \o key ELSE key
         IN (IF IsDict(value) \/ IsList(value)
             THEN search_recursive(search_term, value, current_path)
             ELSE <<>>)
            \o (IF Contains(search_term, Lower(key)) \/ ValueMatches(search_term, value)
                THEN << [path |-> current_path, key |-> key, value |-> HitValue(value)] >>
                ELSE <<>>)
            \o SearchEntries_post(search_term, obj, path, i + 1)

\* a loop that descends only into the entries it has emitted a hit for
SearchEntries_prune(search_term, obj, path, i) ==
    IF i > Len(obj.entries) THEN <<>>
    ELSE LET key   == obj.entries[i][1]
             value == obj.entries[i][2]
             current_path == IF path # <<>> THEN path \o <<".">> \o key ELSE key
         IN (IF Contains(search_term, Lower(key)) \/ ValueMatches(search_term, value)
             THEN << [path |-> current_path, key |-> key, value |-> HitValue(value)] >>
                  \o (IF IsDict(value) \/ IsList(value)
                      THEN search_recursive(search_term, value, current_path)
                      ELSE <<>>)
             ELSE <<>>)
            \o SearchEntries_prune(search_term, obj, path, i + 1)

\* the loop over obj.items(), from entry i on
SearchEntries(search_term, obj, path, i) ==
    IF i > Len(obj.entries) THEN <<>>
    ELSE LET key   == obj.entries[i][1]
             value == obj.entries[i][2]
             current_path == IF path # <<>> THEN path \o <<".">> \o key ELSE key
         IN (IF Contains(search_term, Lower(key)) \/ ValueMatches(search_term, value)
             THEN << [path |-> current_path, key |-> key, value |-> HitValue(value)] >>
             ELSE <<>>)
            \o (IF IsDict(value) \/ IsList(value)
                THEN search_recursive(search_term, value, current_path)
                ELSE <<>>)
            \o SearchEntries(search_term, obj, path, i + 1)

\* the loop over enumerate(obj), from item i on (i - 1 is the Python index)
SearchItems(search_term, obj, path, i) ==
    IF i > Len(obj.items) THEN <<>>
    ELSE LET item == obj.items[i]
             current_path == path \o <<"[">> \o IntStr(i - 1) \o <<"]">>
         IN (IF ValueMatches(search_term, item)
             THEN << [path |-> current_path, value |-> HitValue(item)] >>
             ELSE <<>>)
            \o (IF IsDict(item) \/ IsList(item)
                THEN search_recursive(search_term, item, current_path)
                ELSE <<>>)
            \o SearchItems(search_term, obj, path, i + 1)

search_recursive(search_term, obj, path) ==
    IF IsDict(obj) THEN SearchEntries(search_term, obj, path, 1)
    ELSE IF IsList(obj) THEN SearchItems(search_term, obj, path, 1)
    ELSE <<>>

\* a slice that stops one hit early
Truncate_short(search_results) ==
    SubSeq(search_results, 1,
           IF Len(search_results) >= SearchLimit THEN SearchLimit - 1 ELSE Len(search_results))

\* search_results[:50]
Truncate(search_results) ==
    SubSeq(search_results, 1,
           IF Len(search_results) > SearchLimit THEN SearchLimit ELSE Len(search_results))

\* the search_toast_spec branch after the fetch; the term arrives as typed
SearchToastSpec(spec_data, term) ==
    LET search_term    == Lower(term)
        search_results == search_recursive(search_term, spec_data, <<>>)
    IN Return(TextContent(Truncate(search_results),
                          IF Len(search_results) > SearchLimit
                          THEN <<Len(search_results) - SearchLimit>>
                          ELSE <<>>))

-----------------------------------------------------------------------------
(* get_toast_spec and list_toast_specs                                     *)

GetToastSpec(spec_data) == Return(TextContent(spec_data, <<>>))

\* a listing of the specifications that have been fetched so far
ListToastSpecs_cached ==
    Return(TextContent(SelectSeq(TOAST_SPECS, LAMBDA e : e.name \in DOMAIN specs_cache), <<>>))

\* the list of {"name": spec_name, "url": url} over TOAST_SPECS.items()
ListToastSpecs == Return(TextContent(TOAST_SPECS, <<>>))

-----------------------------------------------------------------------------
(* Sample documents: what yaml.safe_load may return for an upstream text.  *)

\* {paths: {/v2/reports: {get: {summary: S}, parameters: [x]}}}
D_reports ==
    PyDict(<<<<<<"p","a","t","h","s">>, PyDict(<<<<<<"/","v","2","/","r","e","p","o","r","t","s">>, PyDict(<<<<<<"g","e","t">>, PyDict(<<<<<<"s","u","m","m","a","r","y">>, PyStrV(<<"S">>)>>>>)>>, <<<<"p","a","r","a","m","e","t","e","r","s">>, PyList(<<PyStrV(<<"x">>)>>)>>>>)>>>>)>>>>)

\* {a: {foo: 1}, b: [nofoo, bar]}
D_search ==
    PyDict(<<<<<<"a">>, PyDict(<<<<<<"f","o","o">>, PyInt(1)>>>>)>>, <<<<"b">>, PyList(<<PyStrV(<<"n","o","f","o","o">>), PyStrV(<<"b","a","r">>)>>)>>>>)

\* two path items, /b before /a, methods with and without summary
D_two_paths ==
    PyDict(<<<<<<"i","n","f","o">>, PyDict(<<<<<<"t","i","t","l","e">>, PyStrV(<<"F","o","o"," ","A","P","I">>)>>>>)>>, <<<<"p","a","t","h","s">>, PyDict(<<<<<<"/","b">>, PyDict(<<<<<<"p","o","s","t">>, PyDict(<<<<<<"s","u","m","m","a","r","y">>, PyStrV(<<"S">>)>>, <<<<"d","e","s","c","r","i","p","t","i","o","n">>, PyStrV(<<"f","o","o">>)>>>>)>>, <<<<"g","e","t">>, PyDict(<<>>)>>>>)>>, <<<<"/","a">>, PyDict(<<<<<<"g","e","t">>, PyDict(<<<<<<"d","e","s","c","r","i","p","t","i","o","n">>, PyStrV(<<"D">>)>>>>)>>, <<<<"x","-","n","o","t","e">>, PyStrV(<<"n">>)>>>>)>>>>)>>>>)

\* {}
D_empty ==
    PyDict(<<>>)

\* {paths: {}}
D_no_endpoints ==
    PyDict(<<<<<<"p","a","t","h","s">>, PyDict(<<>>)>>>>)

\* {paths: null}
D_paths_null ==
    PyDict(<<<<<<"p","a","t","h","s">>, PyNone>>>>)

\* {paths: [/a]}
D_paths_list ==
    PyDict(<<<<<<"p","a","t","h","s">>, PyList(<<PyStrV(<<"/","a">>)>>)>>>>)

\* {paths: {/a: null}}
D_item_null ==
    PyDict(<<<<<<"p","a","t","h","s">>, PyDict(<<<<<<"/","a">>, PyNone>>>>)>>>>)

\* {"": {Foo: true}, x: [[FOO], {y: null}]}
D_nested ==
    PyDict(<<<<<<>>, PyDict(<<<<<<"F","o","o">>, PyBool(TRUE)>>>>)>>, <<<<"x">>, PyList(<<PyList(<<PyStrV(<<"F","O","O">>)>>), PyDict(<<<<<<"y">>, PyNone>>>>)>>)>>>>)

\* [paths]
D_list_root ==
    PyList(<<PyStrV(<<"p","a","t","h","s">>)>>)

\* [foo, {k: v}]
D_list_plain ==
    PyList(<<PyStrV(<<"f","o","o">>), PyDict(<<<<<<"k">>, PyStrV(<<"v">>)>>>>)>>)

\* the scalar document `my paths`
D_str_paths ==
    PyStrV(<<"m","y"," ","p","a","t","h","s">>)

\* the scalar document `foo`
D_str_plain ==
    PyStrV(<<"f","o","o">>)

\* the scalar document `1`
D_int ==
    PyInt(1)

\* the scalar document `true`
D_true ==
    PyBool(TRUE)

\* the empty document parses to None
D_null == PyNone

\* {schema: {pattern: a\b}}
D_pattern ==
    PyDict(<< << <<"s","c","h","e","m","a">>,
                 PyDict(<< << <<"p","a","t","t","e","r","n">>, PyStrV(<<"a","\\","b">>) >> >>) >> >>)

\* [foo1, foo2, ...] with n items
FooList(n) == PyList([i \in 1..n |-> PyStrV(<<"f","o","o">> \o NatStr(i))])

\* a sequence with as many items as hits are shown
D_at_limit == FooList(SearchLimit)

\* a sequence with more items than hits are shown
D_over_limit == FooList(SearchLimit + ExtraHits)

\* documents the upstream serves in the server runs
ServedDocs == {D_reports, D_search, D_null}

\* documents the query operations are applied to
QueryDocs ==
    {D_reports, D_search, D_two_paths, D_empty, D_no_endpoints, D_paths_null, D_paths_list, D_item_null, D_nested, D_list_root, D_list_plain, D_str_paths, D_str_plain, D_int, D_true, D_null,
     D_pattern, D_at_limit, D_over_limit}

S_v2_reports == <<"/","v","2","/","r","e","p","o","r","t","s">>

\* endpoint_path arguments
QueryPaths == {S_v2_reports, <<"/","a">>, <<"/","m","i","s","s","i","n","g">>}

S_foo == <<"f","o","o">>

S_Foo == <<"F","o","o">>

\* search_term arguments
QueryTerms == {S_foo, S_Foo, <<"s">>, <<>>, <<"A","\\","B">>}

-----------------------------------------------------------------------------
(* Tool invocations and the upstream.                                      *)

ToolNames == {"list_toast_specs", "get_toast_spec", "get_toast_endpoints",
              "get_toast_endpoint_details", "search_toast_spec"}

\* the tools that start with fetch_yaml_spec(arguments.get("spec_name"))
SpecTools == ToolNames \ {"list_toast_specs"}

\* a call_tool request: the tool name and the arguments the tool reads
Request(name, spec_name, endpoint_path, search_term) ==
    [name |-> name, spec_name |-> spec_name,
     endpoint_path |-> endpoint_path, search_term |-> search_term]

\* the requests a client sends in the server runs: every tool on the catalog
\* identifier reporting, two tools on a second catalog identifier and on an
\* identifier that is not in the catalog, and a tool that does not exist
Requests ==
    {Request(n, "", <<>>, <<>>) : n \in {"list_toast_specs", "delete_toast_spec"}}
    \cup {Request("get_toast_spec", s, <<>>, <<>>) : s \in {"reporting", "orders", "bogus"}}
    \cup {Request("get_toast_endpoints", "reporting", <<>>, <<>>)}
    \cup {Request("get_toast_endpoint_details", s, S_v2_reports, <<>>) :
            s \in {"reporting", "orders"}}
    \cup {Request("search_toast_spec", s, <<>>, S_Foo) : s \in {"reporting", "bogus"}}

\* what requests.get(url, timeout=30) followed by raise_for_status() yields:
\* a RequestException (transport failure, timeout, non-success status) or a
\* response text, which is or is not well-formed YAML
Responses ==
    {[kind |-> k] : k \in {"ConnectionError", "Timeout", "HTTPError"}}
    \cup {[kind |-> "ok", text |-> [wellformed |-> FALSE]]}
    \cup {[kind |-> "ok", text |-> [wellformed |-> TRUE, tree |-> t]] : t \in ServedDocs}

NoReply == [kind |-> "none"]

NoResponse == [kind |-> "none"]

-----------------------------------------------------------------------------
(* fetch_yaml_spec                                                         *)

\* a fetch that never consults the cache
CacheHit_never(cache, spec_name) == FALSE

\* spec_name in specs_cache
CacheHit(cache, spec_name) == spec_name \in DOMAIN cache

\* specs_cache[spec_name] = spec_data
StoreSpec(cache, spec_name, spec_data) ==
    [k \in (DOMAIN cache) \cup {spec_name} |->
        IF k = spec_name THEN spec_data ELSE cache[k]]

\* a parse that turns a malformed text into an empty document
FetchOutcome_lenient(url, resp) ==
    IF resp.kind # "ok" THEN Raise(FetchError(url, resp.kind))
    ELSE IF ~resp.text.wellformed THEN Return(PyNone)
    ELSE Return(resp.text.tree)

\* the try block: the outcome of fetch_yaml_spec for a response of the upstream
FetchOutcome(url, resp) ==
    IF resp.kind # "ok" THEN Raise(FetchError(url, resp.kind))
    ELSE IF ~resp.text.wellformed THEN Raise(ParseError(url))
    ELSE Return(resp.text.tree)

\* a cache that is written before the outcome of the parse is known
CacheAfterFetch_always(cache, spec_name, outcome) ==
    StoreSpec(cache, spec_name, IF outcome.ok THEN outcome.value ELSE PyNone)

\* the cache after the try block: written only once safe_load has returned
CacheAfterFetch(cache, spec_name, outcome) ==
    IF outcome.ok THEN StoreSpec(cache, spec_name, outcome.value) ELSE cache

\* a fetch that repeats a failed retrieval once
Attempts_retry(resp) == IF resp.kind # "ok" THEN 2 ELSE 1

\* network attempts a call makes for one response: the single requests.get
Attempts(resp) == 1

-----------------------------------------------------------------------------
(* handle_call_tool                                                        *)

\* the branch of a tool that has its document
ToolBranch(req, spec_data) ==
    CASE req.name = "get_toast_spec" -> GetToastSpec(spec_data)
      [] req.name = "get_toast_endpoints" -> GetToastEndpoints(spec_data)
      [] req.name = "get_toast_endpoint_details" ->
            GetToastEndpointDetails(spec_data, req.endpoint_path, req.spec_name)
      [] req.name = "search_toast_spec" -> SearchToastSpec(spec_data, req.search_term)

\* a handler that logs the exception and answers with an empty payload
Propagate_swallow(outcome) ==
    IF outcome.ok THEN outcome ELSE Return(TextContent(<<>>, <<>>))

\* except Exception: log and re-raise; a returned value passes through
Propagate(outcome) == outcome

\* the reply handed to the transport, with what the invocation did:
\* hit: the document came from the cache; net: network retrievals performed;
\* resp: what the upstream answered (NoResponse without a retrieval)
Reply(req, hit, net, resp, outcome) ==
    [kind |-> "reply", req |-> req, hit |-> hit, net |-> net,
     resp |-> resp, result |-> Propagate(outcome)]

\* a handler that is inside requests.get
Task(req) == [req |-> req, url |-> UrlOf(req.spec_name)]

\* an event loop that starts a handler while another is inside the retrieval
LoopFree_always(tasks) == TRUE

\* the handler is a coroutine without an await and the retrieval is a blocking
\* call: the event loop starts no other invocation while one is inside it
LoopFree(tasks) == tasks = {}

InFlight == Cardinality(ready) + Cardinality(running)

TypeOK ==
    /\ ready \subseteq Requests
    /\ \A task \in running : task.req \in Requests
    /\ DOMAIN specs_cache \subseteq {CatalogKeys[i] : i \in 1..Len(CatalogKeys)}

QIdle == [op |-> "none"]

Init ==
    /\ specs_cache = <<>>
    /\ ready = {}
    /\ running = {}
    /\ last = NoReply
    /\ q = QIdle

\* the transport delivers a request; its handler is scheduled
Receive(req) ==
    /\ req \notin ready
    /\ InFlight < MaxInFlight
    /\ ready' = ready \cup {req}
    /\ UNCHANGED <<specs_cache, running, last, q>>

\* the event loop runs the handler of req: to its end, or into the retrieval
Start(req) ==
    /\ req \in ready
    /\ LoopFree(running)
    /\ ready' = ready \ {req}
    /\ IF req.name = "list_toast_specs"
       THEN /\ last' = Reply(req, FALSE, 0, NoResponse, ListToastSpecs)
            /\ UNCHANGED <<specs_cache, running>>
       ELSE IF req.name \notin SpecTools
       THEN /\ last' = Reply(req, FALSE, 0, NoResponse, Raise(UnknownToolError(req.name)))
            /\ UNCHANGED <<specs_cache, running>>
       ELSE IF CacheHit(specs_cache, req.spec_name)
       THEN /\ last' = Reply(req, TRUE, 0, NoResponse,
                             ToolBranch(req, specs_cache[req.spec_name]))
            /\ UNCHANGED <<specs_cache, running>>
       ELSE IF ~InCatalog(req.spec_name)
       THEN /\ last' = Reply(req, FALSE, 0, NoResponse,
                             Raise(UnknownSpecError(req.spec_name)))
            /\ UNCHANGED <<specs_cache, running>>
       ELSE /\ running' = running \cup {Task(req)}
            /\ UNCHANGED <<specs_cache, last>>
    /\ UNCHANGED q

\* a handler that caches the document only when its tool has succeeded
NetReturn_rollback(task, resp) ==
    /\ task \in running
    /\ LET req     == task.req
           outcome == FetchOutcome(task.url, resp)
           result  == IF outcome.ok THEN ToolBranch(req, outcome.value) ELSE outcome
       IN /\ specs_cache' = IF result.ok
                            THEN CacheAfterFetch(specs_cache, req.spec_name, outcome)
                            ELSE specs_cache
          /\ last' = Reply(req, FALSE, Attempts(resp), resp, result)
    /\ running' = running \ {task}
    /\ UNCHANGED <<ready, q>>

\* requests.get returns or raises; the handler runs to its end
NetReturn(task, resp) ==
    /\ task \in running
    /\ LET req     == task.req
           outcome == FetchOutcome(task.url, resp)
       IN /\ specs_cache' = CacheAfterFetch(specs_cache, req.spec_name, outcome)
          /\ last' = Reply(req, FALSE, Attempts(resp), resp,
                           IF outcome.ok THEN ToolBranch(req, outcome.value) ELSE outcome)
    /\ running' = running \ {task}
    /\ UNCHANGED <<ready, q>>

Next ==
    \/ \E req \in Requests : Receive(req)
    \/ \E req \in ready : Start(req)
    \/ \E task \in running, resp \in Responses : NetReturn(task, resp)

Spec == Init /\ [][Next]_vars

-----------------------------------------------------------------------------
(* The query operations applied to a document, an endpoint path and a term. *)

QuerySpecName == "orders"

InitQuery ==
    /\ specs_cache = <<>>
    /\ ready = {}
    /\ running = {}
    /\ last = NoReply
    /\ q \in {[op |-> "none", tree |-> t, endpoint_path |-> p, term |-> s] :
                t \in QueryDocs, p \in QueryPaths, s \in QueryTerms}

ApplyGetToastEndpoints ==
    /\ q' = [op |-> "get_toast_endpoints", tree |-> q.tree,
             endpoint_path |-> q.endpoint_path, term |-> q.term,
             result |-> GetToastEndpoints(q.tree)]
    /\ UNCHANGED <<specs_cache, ready, running, last>>

ApplyGetToastEndpointDetails ==
    /\ q' = [op |-> "get_toast_endpoint_details", tree |-> q.tree,
             endpoint_path |-> q.endpoint_path, term |-> q.term,
             result |-> GetToastEndpointDetails(q.tree, q.endpoint_path, QuerySpecName)]
    /\ UNCHANGED <<specs_cache, ready, running, last>>

ApplySearchToastSpec ==
    /\ q' = [op |-> "search_toast_spec", tree |-> q.tree,
             endpoint_path |-> q.endpoint_path, term |-> q.term,
             result |-> SearchToastSpec(q.tree, q.term)]
    /\ UNCHANGED <<specs_cache, ready, running, last>>

NextQuery ==
    \/ ApplyGetToastEndpoints
    \/ ApplyGetToastEndpointDetails
    \/ ApplySearchToastSpec

SpecQuery == InitQuery /\ [][NextQuery]_vars

-----------------------------------------------------------------------------
(* Properties of the server runs (Spec).                                   *)

\* the step runs the handler of req
Started(req) == req \in ready /\ ready' = ready \ {req}

\* the step ends the retrieval of task
Returned(task) == task \in running /\ running' = running \ {task}

\* the retrieval or the parse of the response failed
Failed(resp) == resp.kind # "ok" \/ ~resp.text.wellformed

\* the step answers req: a reply for it is handed to the transport
Answers(req) == last'.kind = "reply" /\ last'.req = req

\* C1: once an identifier is cached, its entry is never removed or replaced,
\* and every later invocation that fetches it, whatever ran in between,
\* works on the tree first stored and performs no network retrieval.
C1_CachedFetchIsStable ==
    [][ /\ \A id \in DOMAIN specs_cache :
              id \in DOMAIN specs_cache' /\ specs_cache'[id] = specs_cache[id]
        /\ \A req \in ready :
              (Started(req) /\ req.name \in SpecTools
                            /\ req.spec_name \in DOMAIN specs_cache)
              => /\ running' = running
                 /\ Answers(req)
                 /\ last'.net = 0
                 /\ last'.resp = NoResponse
                 /\ last'.result = ToolBranch(req, specs_cache[req.spec_name])
                 /\ (req.name = "get_toast_spec"
                       => /\ last'.result.ok
                          /\ last'.result.value.json = specs_cache[req.spec_name]) ]_vars

\* a get_toast_spec answered from the cache while the other catalog
\* identifier of the run is cached too
C1_Witness ==
    /\ last.kind = "reply"
    /\ last.hit
    /\ last.req.name = "get_toast_spec"
    /\ last.result.ok
    /\ Cardinality(DOMAIN specs_cache) = 2

\* C2: in every state, a fetch of an identifier that is not a catalog key
\* fails with the unknown-spec error that lists every catalog key, performs
\* no network retrieval and leaves the cache unchanged.
C2_UnknownSpecFails ==
    [][ \A req \in ready :
          (Started(req) /\ req.name \in SpecTools
                        /\ ~(\E i \in 1..Len(TOAST_SPECS) : TOAST_SPECS[i].name = req.spec_name))
          => /\ running' = running
             /\ specs_cache' = specs_cache
             /\ Answers(req)
             /\ last'.net = 0
             /\ last'.resp = NoResponse
             /\ ~last'.result.ok
             /\ last'.result.value.what = "Unknown spec"
             /\ last'.result.value.spec_name = req.spec_name
             /\ \A i \in 1..Len(TOAST_SPECS) :
                   \E j \in 1..Len(last'.result.value.available) :
                      last'.result.value.available[j] = TOAST_SPECS[i].name ]_vars

\* an unknown identifier was answered while a document is cached
C2_Witness ==
    /\ last.kind = "reply"
    /\ last.req.name \in SpecTools
    /\ last.req.spec_name = "bogus"
    /\ ~last.result.ok
    /\ DOMAIN specs_cache # {}

\* C3: a fetch that fails at the retrieval or at the parse leaves the cache
\* as it was, with no entry for the identifier; a fetch of an uncached catalog
\* identifier (so also the one after a failure) makes a network attempt, and
\* an attempt that succeeds with a well-formed text creates the entry.
C3_FailedFetchLeavesNoEntry ==
    [][ /\ \A task \in running :
              Returned(task)
              => /\ Answers(task.req)
                 /\ IF Failed(last'.resp)
                    THEN /\ specs_cache' = specs_cache
                         /\ task.req.spec_name \notin DOMAIN specs_cache'
                         /\ ~last'.result.ok
                    ELSE /\ task.req.spec_name \in DOMAIN specs_cache'
                         /\ specs_cache'[task.req.spec_name] = last'.resp.text.tree
                         /\ DOMAIN specs_cache' = DOMAIN specs_cache \cup {task.req.spec_name}
        /\ \A req \in ready :
              (Started(req) /\ req.name \in SpecTools /\ InCatalog(req.spec_name)
                            /\ req.spec_name \notin DOMAIN specs_cache)
              => \E task \in running' : task \notin running /\ task.req = req ]_vars

\* after a failed fetch of an identifier the next invocation for it is inside
\* its own retrieval, the identifier still uncached
C3_Witness ==
    /\ last.kind = "reply"
    /\ last.net = 1
    /\ Failed(last.resp)
    /\ \E task \in running :
          /\ task.req.spec_name = last.req.spec_name
          /\ task.req.spec_name \notin DOMAIN specs_cache

IsError(v) == v.kind \in {"ValueError", "Exception", "TypeError", "AttributeError"}

\* the endpoint lookup of a details request fails on the document
LookupFails(req, tree) ==
    /\ req.name = "get_toast_endpoint_details"
    /\ IsDict(tree)
    /\ \/ ~HasKey(tree, S_paths)
       \/ /\ IsDict(DictGet(tree, S_paths))
          /\ ~HasKey(DictGet(tree, S_paths), req.endpoint_path)

\* C5: every answered invocation carries either a text payload or an error,
\* and it carries an error whenever the tool name is unknown, the fetch
\* failed (unknown identifier, retrieval, parse) or the endpoint lookup failed.
C5_FailureIsAnError ==
    last.kind = "reply" =>
        /\ IF last.result.ok
           THEN last.result.value.type = "text"
           ELSE IsError(last.result.value)
        /\ last.req.name \notin ToolNames => ~last.result.ok
        /\ (last.req.name \in SpecTools /\ ~InCatalog(last.req.spec_name)) => ~last.result.ok
        /\ (last.resp # NoResponse /\ Failed(last.resp)) => ~last.result.ok
        /\ (/\ last.req.name \in SpecTools
            /\ last.req.spec_name \in DOMAIN specs_cache
            /\ LookupFails(last.req, specs_cache[last.req.spec_name])) => ~last.result.ok

\* a details request was answered for a fetched document without its path
C5_Witness ==
    /\ last.kind = "reply"
    /\ last.req.spec_name \in DOMAIN specs_cache
    /\ LookupFails(last.req, specs_cache[last.req.spec_name])
    /\ ~last.result.ok

\* C6: an invocation performs exactly one network retrieval when it fetches
\* an uncached catalog identifier and none otherwise (cache hit, unknown
\* identifier, list_toast_specs, unknown tool); when the retrieval ends, also
\* by a failure, the invocation is answered and is not retrieving again.
C6_AtMostOneRetrieval ==
    [][ /\ \A req \in ready :
              Started(req)
              => IF /\ req.name \in SpecTools
                    /\ InCatalog(req.spec_name)
                    /\ req.spec_name \notin DOMAIN specs_cache
                 THEN /\ last' = last
                      /\ \E task \in running' :
                            task.req = req /\ running' = running \cup {task}
                 ELSE /\ running' = running
                      /\ Answers(req)
                      /\ last'.net = 0
        /\ \A task \in running :
              Returned(task)
              => /\ Answers(task.req)
                 /\ last'.net = 1
                 /\ \A other \in running' : other.req # task.req ]_vars

\* a retrieval failed, its invocation was answered and nothing is retrieving
C6_Witness ==
    /\ last.kind = "reply"
    /\ last.net = 1
    /\ Failed(last.resp)
    /\ ~last.result.ok
    /\ running = {}

-----------------------------------------------------------------------------
(* Properties of the query operations.                                     *)

\* the locators of a sequence of hits
HitPaths(hits) == [i \in 1..Len(hits) |-> hits[i].path]

\* the value shown for a composite
IsPlaceholder(v) ==
    v \in {PyStrV(<<"<","d","i","c","t",">">>), PyStrV(<<"<","l","i","s","t",">">>)}

\* C7: search emits no hit for a mapping entry whose key does not contain the
\* term and whose value is composite; on {a: {foo: 1}, b: [nofoo, bar]} with
\* the term foo the hits are exactly a.foo and b[0], in this order.
C7_CompositeEntryIsNoHit ==
    q.op = "search_toast_spec" =>
        LET hits == q.result.value.json
        IN /\ \A i \in 1..Len(hits) :
                 ("key" \in DOMAIN hits[i] /\ IsPlaceholder(hits[i].value))
                 => Contains(Lower(q.term), Lower(hits[i].key))
           /\ (q.tree = D_search /\ Lower(q.term) = S_foo)
                 => HitPaths(hits) = << <<"a",".","f","o","o">>, <<"b","[","0","]">> >>

\* the document has a `paths` mapping whose path items are mappings
HasPathItems(tree) ==
    /\ IsDict(tree)
    /\ \E i \in 1..Len(tree.entries) :
          /\ tree.entries[i][1] = S_paths
          /\ IsDict(tree.entries[i][2])
          /\ \A k \in 1..Len(tree.entries[i][2].entries) :
                IsDict(tree.entries[i][2].entries[k][2])

\* the value of key in the mapping (the key is present)
ValueAt(mapping, key) ==
    mapping.entries[CHOOSE i \in 1..Len(mapping.entries) : mapping.entries[i][1] = key][2]

\* the <<i, j>> with method entry j of path item i a mapping
MethodPairs(paths) ==
    UNION { { <<i, j>> : j \in { k \in 1..Len(paths.entries[i][2].entries) :
                                    IsDict(paths.entries[i][2].entries[k][2]) } } :
            i \in 1..Len(paths.entries) }

\* document order of the pairs: by path item, then by method
NotAfter(p, r) == p[1] < r[1] \/ (p[1] = r[1] /\ p[2] <= r[2])

\* m written in upper case
IsUpperOf(M, m) ==
    /\ Len(M) = Len(m)
    /\ Lower(M) = Lower(m)
    /\ \A k \in 1..Len(M) : \A c \in 1..26 : M[k] # LowerAlpha[c]

\* the value of the field of a method mapping, the empty string when absent
FieldOrEmpty(details, field) ==
    IF \E k \in 1..Len(details.entries) : details.entries[k][1] = field
    THEN ValueAt(details, field)
    ELSE PyStrV(<<>>)

\* C8: on a document whose `paths` is a mapping of path-item mappings,
\* get_toast_endpoints succeeds; its result has one Endpoint for each (path,
\* method) pair whose value is a mapping and none for the other pairs; the
\* Endpoint of the n-th such pair in document order is the n-th of the
\* result and carries the path, the method in upper case, and the summary
\* and description of the method, the empty string when absent.
C8_OneEndpointPerMethodMapping ==
    (q.op = "get_toast_endpoints" /\ HasPathItems(q.tree)) =>
        LET paths == ValueAt(q.tree, S_paths)
            pairs == MethodPairs(paths)
            eps   == q.result.value.json
        IN /\ q.result.ok
           /\ Len(eps) = Cardinality(pairs)
           /\ \A r \in pairs :
                 LET n       == Cardinality({p \in pairs : NotAfter(p, r)})
                     item    == paths.entries[r[1]]
                     method  == item[2].entries[r[2]]
                 IN /\ eps[n].path = item[1]
                    /\ IsUpperOf(eps[n].method, method[1])
                    /\ eps[n].summary = FieldOrEmpty(method[2], S_summary)
                    /\ eps[n].description = FieldOrEmpty(method[2], S_description)

\* the endpoints of the document with two path items, /b before /a, were
\* listed: three Endpoints, the scalar sibling x-note skipped
C8_Witness ==
    /\ q.op = "get_toast_endpoints"
    /\ q.tree = D_two_paths
    /\ q.result.ok
    /\ Len(q.result.value.json) = 3
    /\ q.result.value.json[3].path = <<"/","a">>

\* the invocation was answered after its fetch had succeeded
FetchSucceeded ==
    /\ last.kind = "reply"
    /\ last.req.name \in SpecTools
    /\ last.hit \/ (last.resp # NoResponse /\ ~Failed(last.resp))
    /\ last.req.spec_name \in DOMAIN specs_cache

\* the document is not a mapping with a key `paths`
NoPathsKey(tree) ==
    ~(tree.kind = "dict" /\ \E i \in 1..Len(tree.entries) : tree.entries[i][1] = S_paths)

EmptyList == [ok |-> TRUE, value |-> [type |-> "text", json |-> <<>>, more |-> <<>>]]

\* C9 as stated: for every fetched document without a `paths` key, whatever
\* the kind of its root, get_toast_endpoints answers with the empty list.
C9_NoPathsAnyRoot ==
    (/\ FetchSucceeded
     /\ last.req.name = "get_toast_endpoints"
     /\ NoPathsKey(specs_cache[last.req.spec_name]))
    => last.result = EmptyList

\* C9: for every fetched document whose root is a mapping without a `paths`
\* key, get_toast_endpoints answers with the empty list and not an error.
C9_NoPathsMappingRoot ==
    (/\ FetchSucceeded
     /\ last.req.name = "get_toast_endpoints"
     /\ specs_cache[last.req.spec_name].kind = "dict"
     /\ NoPathsKey(specs_cache[last.req.spec_name]))
    => last.result = EmptyList

\* the endpoints of a fetched mapping without `paths` were listed
C9_Witness ==
    /\ FetchSucceeded
    /\ last.req.name = "get_toast_endpoints"
    /\ specs_cache[last.req.spec_name] = D_search
    /\ last.result.ok

C11_FirstFiftyAndNote ==
    q.op = "search_toast_spec" =>
        LET all   == search_recursive(Lower(q.term), q.tree, <<>>)
            n     == Len(all)
            shown == q.result.value.json
            note  == q.result.value.more
        IN /\ q.result.ok
           /\ Len(shown) = (IF n > 50 THEN 50 ELSE n)
           /\ \A i \in 1..Len(shown) : shown[i] = all[i]
           /\ (note # <<>>) <=> (n > 50)
           /\ n > 50 => note = <<n - 50>>

\* a search with more than 50 hits was answered: 50 hits and a note
C11_Witness ==
    /\ q.op = "search_toast_spec"
    /\ q.tree = D_over_limit
    /\ Lower(q.term) = S_foo
    /\ Len(q.result.value.json) = 50
    /\ q.result.value.more # <<>>

\* C12: in every state list_toast_specs answers with one {name, url} entry
\* for each catalog entry, in catalog order, performs no network retrieval
\* and leaves the cache unchanged.
C12_ListIsTheCatalog ==
    [][ \A req \in ready :
          (Started(req) /\ req.name = "list_toast_specs")
          => /\ running' = running
             /\ specs_cache' = specs_cache
             /\ Answers(req)
             /\ last'.net = 0
             /\ last'.resp = NoResponse
             /\ last'.result.ok
             /\ last'.result.value.more = <<>>
             /\ Len(last'.result.value.json) = Len(CatalogKeys)
             /\ \A i \in 1..Len(CatalogKeys) :
                   /\ DOMAIN last'.result.value.json[i] = {"name", "url"}
                   /\ last'.result.value.json[i].name = CatalogKeys[i]
                   /\ last'.result.value.json[i].url = UrlOf(CatalogKeys[i]) ]_vars

\* the catalog was listed while one document is cached and an invocation is
\* waiting
C12_Witness ==
    /\ last.kind = "reply"
    /\ last.req.name = "list_toast_specs"
    /\ last.result.ok
    /\ Len(last.result.value.json) = 19
    /\ Cardinality(DOMAIN specs_cache) = 1
    /\ ready # {}

-----------------------------------------------------------------------------
(* The nodes of a document by address: the child indices from the root.    *)

NumChildren(v) ==
    IF v.kind = "dict" THEN Len(v.entries)
    ELSE IF v.kind = "list" THEN Len(v.items) ELSE 0

ChildOf(v, i) == IF v.kind = "dict" THEN v.entries[i][2] ELSE v.items[i]

RECURSIVE NodeAt(_, _)
NodeAt(tree, addr) ==
    IF addr = <<>> THEN tree ELSE NodeAt(ChildOf(tree, Head(addr)), Tail(addr))

RECURSIVE AddressesOf(_)
\* the addresses of the mapping entries and sequence items inside v
AddressesOf(v) ==
    UNION { {<<i>>} \cup { <<i>> \o a : a \in AddressesOf(ChildOf(v, i)) } :
            i \in 1..NumChildren(v) }

ParentOf(addr) == SubSeq(addr, 1, Len(addr) - 1)

\* the node at addr is an entry of a mapping
IsEntry(tree, addr) == NodeAt(tree, ParentOf(addr)).kind = "dict"

\* the key of the mapping entry at addr
KeyAt(tree, addr) == NodeAt(tree, ParentOf(addr)).entries[addr[Len(addr)]][1]

\* a is visited before b in a depth-first pre-order walk
PreBefore(a, b) ==
    \/ Len(a) < Len(b) /\ SubSeq(b, 1, Len(a)) = a
    \/ \E k \in 1..Len(a) :
          /\ k <= Len(b)
          /\ SubSeq(a, 1, k - 1) = SubSeq(b, 1, k - 1)
          /\ a[k] < b[k]

RECURSIVE LocatorAt(_, _)
\* the locator the walk builds: the parent's locator, then `.key` (the dot
\* left out after an empty locator) or `[index]`
LocatorAt(tree, addr) ==
    IF addr = <<>> THEN <<>>
    ELSE LET P == LocatorAt(tree, ParentOf(addr))
         IN IF IsEntry(tree, addr)
            THEN (IF P = <<>> THEN <<>> ELSE P \o <<".">>) \o KeyAt(tree, addr)
            ELSE P \o <<"[">> \o IntStr(addr[Len(addr)] - 1) \o <<"]">>

\* the walk emits a hit for the node at addr: the term is in the lowercased
\* key or in the lowercased str() of the value
EmitsHit(term, tree, addr) ==
    \/ IsEntry(tree, addr) /\ Contains(term, Lower(KeyAt(tree, addr)))
    \/ Contains(term, Lower(PyStr(NodeAt(tree, addr))))

\* the addresses the walk emits a hit for
HitAddresses(term, tree) == {a \in AddressesOf(tree) : EmitsHit(term, tree, a)}

\* the place of the hit of a among the hits, in pre-order
PlaceOf(a, addrs) == Cardinality({b \in addrs : b = a \/ PreBefore(b, a)})

\* C13: the hits are in depth-first pre-order: the n-th node, in pre-order,
\* that a hit is emitted for is the node of the n-th hit; so the hit of a
\* node precedes the hits inside it, which precede those of the next
\* sibling, entries in document key order and items by index.
C13_HitsInPreOrder ==
    q.op = "search_toast_spec" =>
        LET term  == Lower(q.term)
            all   == search_recursive(term, q.tree, <<>>)
            addrs == HitAddresses(term, q.tree)
        IN /\ Len(all) = Cardinality(addrs)
           /\ \A a \in addrs :
                 /\ all[PlaceOf(a, addrs)].path = LocatorAt(q.tree, a)
                 /\ all[PlaceOf(a, addrs)].value = HitValue(NodeAt(q.tree, a))

\* a search with hits for a mapping entry, a sequence inside it, a sequence
\* inside that one and its item, after the hits of an earlier entry
C13_Witness ==
    /\ q.op = "search_toast_spec"
    /\ q.tree = D_nested
    /\ Lower(q.term) = S_foo
    /\ HitPaths(q.result.value.json) =
          << <<>>, <<"F","o","o">>, <<"x">>, <<"x","[","0","]">>,
             <<"x","[","0","]","[","0","]">> >>

\* the term is in the lowercased key of the entry at addr, or the node at
\* addr is a scalar and the term is in its lowercased string form
KeyOrScalarMatches(term, tree, addr) ==
    \/ IsEntry(tree, addr) /\ Contains(term, Lower(KeyAt(tree, addr)))
    \/ /\ NodeAt(tree, addr).kind \notin {"dict", "list"}
       /\ Contains(term, Lower(PyStr(NodeAt(tree, addr))))

\* C14: for every mapping key and every scalar value, at any depth, whose
\* lowercased string form contains the lowercased term, the complete result
\* has a hit at the locator of that node, also under entries without a hit.
C14_EveryMatchIsFound ==
    q.op = "search_toast_spec" =>
        LET term == Lower(q.term)
            all  == search_recursive(term, q.tree, <<>>)
        IN \A a \in AddressesOf(q.tree) :
              KeyOrScalarMatches(term, q.tree, a)
              => \E i \in 1..Len(all) :
                    /\ all[i].path = LocatorAt(q.tree, a)
                    /\ all[i].value = HitValue(NodeAt(q.tree, a))

\* the only hit of a search is inside an entry that is not a hit itself,
\* found with a term typed in upper case
C14_Witness ==
    /\ q.op = "search_toast_spec"
    /\ q.tree = D_pattern
    /\ q.term = <<"A","\\","B">>
    /\ HitPaths(q.result.value.json) =
          << <<"s","c","h","e","m","a",".","p","a","t","t","e","r","n">> >>

RECURSIVE RootOnlyLocator(_, _)
\* the locator with the dot left out for the entries of the root mapping only
RootOnlyLocator(tree, addr) ==
    IF addr = <<>> THEN <<>>
    ELSE LET P == RootOnlyLocator(tree, ParentOf(addr))
         IN IF IsEntry(tree, addr)
            THEN (IF Len(addr) = 1 THEN <<>> ELSE P \o <<".">>) \o KeyAt(tree, addr)
            ELSE P \o <<"[">> \o IntStr(addr[Len(addr)] - 1) \o <<"]">>

\* C15: the locator of a hit is its parent's locator followed by `.k` for a
\* mapping key or `[i]` for a sequence index, the root locator empty and the
\* dot left out exactly for the entries of the root mapping; the hit of a
\* mapping entry carries key = k, the hit of a sequence item no key field.
C15_LocatorOfEveryHit ==
    q.op = "search_toast_spec" =>
        LET term  == Lower(q.term)
            all   == search_recursive(term, q.tree, <<>>)
            addrs == HitAddresses(term, q.tree)
        IN \A a \in addrs :
              LET hit == all[PlaceOf(a, addrs)]
              IN /\ hit.path = RootOnlyLocator(q.tree, a)
                 /\ IF IsEntry(q.tree, a)
                    THEN "key" \in DOMAIN hit /\ hit.key = KeyAt(q.tree, a)
                    ELSE "key" \notin DOMAIN hit

-----------------------------------------------------------------------------
(* Further properties of the server runs.                                  *)

\* C16: the cache starts empty, its identifiers are catalog identifiers in
\* every state, and an identifier enters it only in the step in which an
\* invocation for it ends its one retrieval with a well-formed text.
C16_CachedOnlyAfterSuccess ==
    /\ specs_cache = <<>>
    /\ [](\A id \in DOMAIN specs_cache :
             \E i \in 1..Len(TOAST_SPECS) : TOAST_SPECS[i].name = id)
    /\ [][ \A id \in DOMAIN specs_cache' :
             id \notin DOMAIN specs_cache
             => \E task \in running :
                   /\ Returned(task)
                   /\ task.req.spec_name = id
                   /\ Answers(task.req)
                   /\ last'.net = 1
                   /\ last'.resp.kind = "ok"
                   /\ last'.resp.text.wellformed
                   /\ specs_cache'[id] = last'.resp.text.tree ]_vars

\* both catalog identifiers of the run are cached, the second one by the
\* invocation just answered
C16_Witness ==
    /\ Cardinality(DOMAIN specs_cache) = 2
    /\ last.kind = "reply"
    /\ last.net = 1
    /\ ~Failed(last.resp)
    /\ specs_cache[last.req.spec_name] = last.resp.text.tree

\* the invocation answered last fetched its document over the network and
\* then failed in its tool
QueryFailedAfterFetch ==
    /\ last.kind = "reply"
    /\ last.net = 1
    /\ ~Failed(last.resp)
    /\ ~last.result.ok

\* C17: an invocation whose fetch succeeds and whose tool then fails leaves
\* the fetched tree cached, and the next invocation for the identifier is
\* answered from it without a network retrieval.
C17_QueryFailureKeepsCache ==
    /\ [](QueryFailedAfterFetch
            => /\ last.req.spec_name \in DOMAIN specs_cache
               /\ specs_cache[last.req.spec_name] = last.resp.text.tree)
    /\ [][ \A req \in ready :
             (/\ QueryFailedAfterFetch
              /\ Started(req)
              /\ req.name \in SpecTools
              /\ req.spec_name = last.req.spec_name)
             => /\ running' = running
                /\ specs_cache' = specs_cache
                /\ Answers(req)
                /\ last'.hit
                /\ last'.net = 0 ]_vars

\* get_toast_endpoint_details failed on a path that the fetched document
\* does not have, and another invocation for the identifier is waiting
C17_Witness ==
    /\ QueryFailedAfterFetch
    /\ last.req.name = "get_toast_endpoint_details"
    /\ last.result.value.what = "Endpoint not found"
    /\ \E req \in ready : req.name \in SpecTools /\ req.spec_name = last.req.spec_name

====
